---- MODULE Spec2Model ----
(***************************************************************************)
(* A model of the fall-detection dataset preparation scripts:              *)
(*   data.py   the two-directory frame extractor and its batch driver      *)
(*   utils.py  the single-directory frame extractor                        *)
(*   u1.py     the train/val/test dataset splitter                         *)
(*                                                                         *)
(* An annotation line is modelled after line.strip().split(","): a         *)
(* non-empty sequence of fields.  A field is text that int() accepts       *)
(* (kind "int", with its value), text that int() rejects (kind "text"),    *)
(* or the empty string (kind "blank").  A written image is modelled by its *)
(* file name; a directory by the set of file names in it.                  *)
(***************************************************************************)
EXTENDS Integers, Sequences, FiniteSets, TLC

VARIABLES
    video,        \* the video file handed to the extractor
    annotation,   \* the annotation file: a sequence of lines
    dataRun,      \* data.py  crop_frames_using_annotations: its locals and outputs
    utilsRun,     \* utils.py crop_frames_using_annotations: its locals and outputs
    rooms,        \* process_all_rooms: the folders' contents, per room tuple
    driver,       \* process_all_rooms: its position and what it has invoked
    sources,      \* split_data: the source trees and directory lists
    splitRun,     \* split_data: the lists it built in its last run
    dest,         \* split_data: the destination tree
    count         \* the split sizes computed for one label

vars == <<video, annotation, dataRun, utilsRun, rooms, driver, sources, splitRun, dest, count>>

(***************************************************************************)
(* Bounds of the model.                                                    *)
(***************************************************************************)
MaxFrame == 3      \* frame numbers 1..MaxFrame appear in annotation lines
MaxBody == 2       \* annotation lines after the two interval lines
FrameSide == 4     \* width and height of the decoded frames
MaxBoxDim == 5     \* largest box width/height in the box-geometry runs

(***************************************************************************)
(* Annotation fields and lines.                                            *)
(***************************************************************************)
I(n) == [kind |-> "int", val |-> n]
Txt == [kind |-> "text", val |-> 0]
Blank == [kind |-> "blank", val |-> 0]

IsInt(f) == f.kind = "int"

\* f"{frame_num}.jpg"
FileName(frame_num) == [stem |-> frame_num, ext |-> "jpg"]

Max(a, b) == IF a >= b THEN a ELSE b
Min(a, b) == IF a <= b THEN a ELSE b

\* annotations[0], [2], [3], [4], [5] (Python indexes from 0)
FrameField(line) == line[1]
UsedFields(line) == <<line[1], line[3], line[4], line[5], line[6]>>

\* the try block: every int() succeeds
AllInts(line) == \A i \in 1..5 : IsInt(UsedFields(line)[i])

\* the clamped crop box <<x_start, x_end, y_start, y_end>>; // is floor division
CropBox(x_center, y_center, width, height, width_frame, height_frame) ==
    << Max(0, x_center - width \div 2),
       Min(width_frame, x_center + width \div 2),
       Max(0, y_center - height \div 2),
       Min(height_frame, y_center + height \div 2) >>

InvalidDims(width, height) == width <= 0 \/ height <= 0

\* a slip: only the horizontal extent is checked
InvalidCropXOnly(box) == box[1] >= box[2]

InvalidCrop(box) == box[1] >= box[2] \/ box[3] >= box[4]

NoBox == <<0, 0, 0, 0>>

\* a slip: the result of video.read() is not checked
ReadFrameUnchecked(v, frame_num) == TRUE

\* video.set(cv.CAP_PROP_POS_FRAMES, frame_num - 1); ret, frame = video.read()
ReadFrame(v, frame_num) == frame_num \in v.readable

\* cv.imwrite(img_save_path, cropped) returned true (and did not raise)
ImWrite(v, frame_num) == frame_num \notin v.unwritable

\* one entry of a run's trace: what the loop body did with a line
Entry(line_num, outcome, frame_num, target, box) ==
    [line_num |-> line_num, outcome |-> outcome, frame_num |-> frame_num,
     target |-> target, box |-> box]

(***************************************************************************)
(* The part of the loop body both extractors share: from the field-count   *)
(* check to the imwrite.  Returns the trace entry, with outcome "written"  *)
(* when the image file was written.                                        *)
(***************************************************************************)
CropLine(v, line, line_num) ==
    IF Len(line) < 6 THEN Entry(line_num, "malformed", 0, "none", NoBox)
    ELSE IF ~AllInts(line) THEN Entry(line_num, "parse_error", 0, "none", NoBox)
    ELSE LET frame_num == line[1].val
             x_center == line[3].val
             y_center == line[4].val
             width == line[5].val
             height == line[6].val
             box == CropBox(x_center, y_center, width, height, v.width_frame, v.height_frame)
         IN  IF InvalidDims(width, height)
                 THEN Entry(line_num, "bad_dims", frame_num, "none", NoBox)
             ELSE IF ~ReadFrame(v, frame_num)
                 THEN Entry(line_num, "no_frame", frame_num, "none", NoBox)
             ELSE IF InvalidCrop(box)
                 THEN Entry(line_num, "bad_crop", frame_num, "none", box)
             ELSE IF ~ImWrite(v, frame_num)
                 THEN Entry(line_num, "write_failed", frame_num, "none", box)
             ELSE Entry(line_num, "written", frame_num, "dir", box)

(***************************************************************************)
(* data.py: crop_frames_using_annotations (two directories).               *)
(***************************************************************************)
\* int(line.strip()) on an interval line: a single integer field, or ValueError
IntervalLineOk(line) == Len(line) = 1 /\ IsInt(line[1])

\* if line_num == 1 / elif line_num == 2
IsStartLine(line_num) == line_num = 1

\* a slip: elif line_num >= 2
IsEndLineOrLater(line_num) == line_num >= 2

IsEndLine(line_num) == line_num = 2

\* a slip: the end of the interval is excluded
InFallIntervalOpen(fall_start_frame, fall_end_frame, frame_num) ==
    fall_start_frame <= frame_num /\ frame_num < fall_end_frame

\* fall_start_frame <= frame_num <= fall_end_frame
InFallInterval(fall_start_frame, fall_end_frame, frame_num) ==
    fall_start_frame <= frame_num /\ frame_num <= fall_end_frame

DataStart ==
    [pc |-> "start", line_num |-> 0, fall_start_frame |-> {}, fall_end_frame |-> {},
     fall_dir |-> {}, no_fall_dir |-> {}, log |-> <<>>]

\* lines 7-10: open the video, or return
DataOpen(run, v) ==
    IF v.opens THEN [run EXCEPT !.pc = "loop"] ELSE [run EXCEPT !.pc = "aborted"]

\* lines 16-79: one iteration of the loop over the annotation lines, or, at the
\* end of the file, line 81
DataLine(run, v, ann) ==
    IF run.line_num = Len(ann) THEN [run EXCEPT !.pc = "done"]
    ELSE
    LET line_num == run.line_num + 1
        line == ann[line_num]
        at == [run EXCEPT !.line_num = line_num]
    IN  IF IsStartLine(line_num) THEN
            IF IntervalLineOk(line)
                THEN [at EXCEPT !.fall_start_frame = {line[1].val}]
                ELSE [at EXCEPT !.pc = "crashed"]
        ELSE IF IsEndLine(line_num) THEN
            IF IntervalLineOk(line)
                THEN [at EXCEPT !.fall_end_frame = {line[1].val}]
                ELSE [at EXCEPT !.pc = "crashed"]
        ELSE
            LET e == CropLine(v, line, line_num)
                to_fall == \E s \in run.fall_start_frame, t \in run.fall_end_frame :
                               InFallInterval(s, t, e.frame_num)
            IN  IF e.outcome # "written" THEN [at EXCEPT !.log = Append(@, e)]
                ELSE IF to_fall
                    THEN [at EXCEPT !.fall_dir = @ \cup {FileName(e.frame_num)},
                                    !.log = Append(@, [e EXCEPT !.target = "fall"])]
                    ELSE [at EXCEPT !.no_fall_dir = @ \cup {FileName(e.frame_num)},
                                    !.log = Append(@, [e EXCEPT !.target = "no_fall"])]

(***************************************************************************)
(* utils.py: crop_frames_using_annotations (one directory).                *)
(***************************************************************************)
\* not line.strip()
IsBlankLine(line) == Len(line) = 1 /\ line[1].kind = "blank"

UtilsStart == [pc |-> "start", line_num |-> 0, save_dir |-> {}, log |-> <<>>]

UtilsOpen(run, v) ==
    IF v.opens THEN [run EXCEPT !.pc = "loop"] ELSE [run EXCEPT !.pc = "aborted"]

UtilsLine(run, v, ann) ==
    IF run.line_num = Len(ann) THEN [run EXCEPT !.pc = "done"]
    ELSE
    LET line_num == run.line_num + 1
        line == ann[line_num]
        at == [run EXCEPT !.line_num = line_num]
    IN  IF IsBlankLine(line)
            THEN [at EXCEPT !.log = Append(@, Entry(line_num, "empty", 0, "none", NoBox))]
        ELSE
            LET e == CropLine(v, line, line_num)
            IN  IF e.outcome # "written" THEN [at EXCEPT !.log = Append(@, e)]
                ELSE [at EXCEPT !.save_dir = @ \cup {FileName(e.frame_num)},
                                !.log = Append(@, [e EXCEPT !.target = "save"])]

(***************************************************************************)
(* Double-precision arithmetic, as far as int(ratio * total) needs it.     *)
(* A natural number too wide for a machine integer is a sequence of limbs  *)
(* of LimbBits bits, least significant first.  A double is mant * 2^exp    *)
(* with mant such a number of MantBits significant bits.                   *)
(***************************************************************************)
MantBits == 53
LimbBits == 12

Limb == 2 ^ LimbBits

RECURSIVE LimbsToNat(_)
LimbsToNat(a) == IF a = <<>> THEN 0 ELSE a[1] + Limb * LimbsToNat(Tail(a))

\* without the zero limbs at the most significant end
RECURSIVE Trim(_)
Trim(a) == IF a = <<>> THEN <<>>
           ELSE IF a[Len(a)] = 0 THEN Trim(SubSeq(a, 1, Len(a) - 1)) ELSE a

\* the number of significant bits of n
RECURSIVE BitLen(_)
BitLen(n) == IF n = 0 THEN 0 ELSE 1 + BitLen(n \div 2)

BitLenOf(a) ==
    LET t == Trim(a)
    IN  IF t = <<>> THEN 0 ELSE LimbBits * (Len(t) - 1) + BitLen(t[Len(t)])

\* a + c for a small c
RECURSIVE AddSmall(_, _)
AddSmall(a, c) ==
    IF c = 0 THEN a
    ELSE IF a = <<>> THEN <<c>>
    ELSE <<(a[1] + c) % Limb>> \o AddSmall(Tail(a), (a[1] + c) \div Limb)

\* a * n + c for small n and c
RECURSIVE MulSmall(_, _, _)
MulSmall(a, n, c) ==
    IF a = <<>> THEN (IF c = 0 THEN <<>> ELSE <<c % Limb>> \o MulSmall(<<>>, n, c \div Limb))
    ELSE <<(a[1] * n + c) % Limb>> \o MulSmall(Tail(a), n, (a[1] * n + c) \div Limb)

\* bit k of a, counting from 0 at the least significant end
BitAt(a, k) ==
    IF k \div LimbBits + 1 > Len(a) THEN 0
    ELSE (a[k \div LimbBits + 1] \div 2 ^ (k % LimbBits)) % 2

\* whether a bit of a below bit k is set
AnyBitBelow(a, k) ==
    \/ \E i \in 1..Min(k \div LimbBits, Len(a)) : a[i] # 0
    \/ /\ k \div LimbBits + 1 <= Len(a)
       /\ a[k \div LimbBits + 1] % 2 ^ (k % LimbBits) # 0

\* a shifted right by s bits
ShiftRight(a, s) ==
    LET drop == s \div LimbBits
        by == s % LimbBits
        at(i) == IF i <= Len(a) THEN a[i] ELSE 0
    IN  Trim([i \in 1..Max(0, Len(a) - drop) |->
                 at(i + drop) \div 2 ^ by + (at(i + drop + 1) % 2 ^ by) * 2 ^ (LimbBits - by)])

\* round-half-to-even of a to MantBits significant bits:
\* <<the rounded mantissa, the number of bits dropped>>
RoundBits(a) ==
    LET s == BitLenOf(a) - MantBits
    IN  IF s <= 0 THEN <<Trim(a), 0>>
        ELSE LET q == ShiftRight(a, s)
                 up == BitAt(a, s - 1) = 1 /\ (AnyBitBelow(a, s - 1) \/ q[1] % 2 = 1)
             IN  <<IF up THEN AddSmall(q, 1) ELSE q, s>>

\* the next limbs of the binary fraction r/den, most significant first, of the
\* given widths in bits, and the remainder left after them
RECURSIVE FracLimbs(_, _, _)
FracLimbs(r, den, widths) ==
    IF widths = <<>> THEN <<<<>>, r>>
    ELSE LET rest == FracLimbs((r * 2 ^ widths[1]) % den, den, Tail(widths))
         IN  <<Append(rest[1], (r * 2 ^ widths[1]) \div den), rest[2]>>

RECURSIVE LeadingZeros(_, _)
LeadingZeros(r, den) == IF 2 * r >= den THEN 0 ELSE 1 + LeadingZeros(2 * r, den)

\* the widths of the limbs of a mantissa, most significant first
MantWidths ==
    LET full == MantBits \div LimbBits
    IN  (IF MantBits % LimbBits = 0 THEN <<>> ELSE <<MantBits % LimbBits>>)
        \o [i \in 1..full |-> LimbBits]

\* the double nearest to the decimal literal num/den, 0 < num < den
DoubleOf(num, den) ==
    LET z == LeadingZeros(num, den)
        d == FracLimbs(num * 2 ^ z, den, MantWidths)
        up == 2 * d[2] > den \/ (2 * d[2] = den /\ d[1][1] % 2 = 1)
    IN  [mant |-> IF up THEN AddSmall(d[1], 1) ELSE d[1], exp |-> 0 - (z + MantBits)]

\* int(ratio * total): the double product, rounded, then truncated
IntOfProduct(ratio, total) ==
    LET r == RoundBits(MulSmall(ratio.mant, total, 0))
        e == ratio.exp + r[2]
    IN  IF e >= 0 THEN LimbsToNat(r[1]) * 2 ^ e
        ELSE LimbsToNat(ShiftRight(r[1], 0 - e))

(***************************************************************************)
(* The extractor runs: data.py's run, then utils.py's run, on the same     *)
(* video and annotation file.  The two are separate programs writing to    *)
(* separate directories; they are run one after the other.                 *)
(***************************************************************************)
Ended == {"done", "aborted", "crashed"}

RecordLine(frame_num, x_center, y_center, width, height) ==
    <<I(frame_num), I(0), I(x_center), I(y_center), I(width), I(height)>>

Frames == 1..MaxFrame

\* lines 1 and 2 of a file: an integer, an empty line, a bounding-box record
HeadLines == {<<I(1)>>, <<I(2)>>, <<Blank>>, RecordLine(2, 2, 2, 2, 2)}

\* later lines: too few fields, an empty line, a non-integer field, and
\* records with a box inside the frame or a box of width 0
BodyLines ==
    {<<I(1), I(0), I(2)>>, <<Blank>>, <<I(1), I(0), I(2), Txt, I(2), I(2)>>}
    \cup {RecordLine(f, 2, 2, w, 2) : f \in Frames, w \in {0, 2}}

RECURSIVE SeqsUpTo(_, _)
SeqsUpTo(S, n) ==
    IF n = 0 THEN {<<>>}
    ELSE LET shorter == SeqsUpTo(S, n - 1)
         IN  shorter \cup {Append(q, x) : q \in {r \in shorter : Len(r) = n - 1}, x \in S}

AnnotationFiles ==
    {<<>>} \cup {<<h>> : h \in HeadLines}
    \cup {<<h[1], h[2]>> \o b : h \in HeadLines \X HeadLines, b \in SeqsUpTo(BodyLines, MaxBody)}

Video(opens, readable, unwritable, width_frame, height_frame) ==
    [opens |-> opens, readable |-> readable, unwritable |-> unwritable,
     width_frame |-> width_frame, height_frame |-> height_frame]

\* a video that cannot be opened; videos whose last frame may not decode and
\* for which the write of frame 1 may fail
Videos ==
    {Video(FALSE, {}, {}, FrameSide, FrameSide)}
    \cup {Video(TRUE, 1..k, u, FrameSide, FrameSide) : k \in {MaxFrame - 1, MaxFrame}, u \in {{}, {1}}}

Idle == <<>>

ExtractIdle == video = Idle /\ annotation = Idle /\ dataRun = Idle /\ utilsRun = Idle
DriverIdle == rooms = Idle /\ driver = Idle
SplitIdle == sources = Idle /\ splitRun = Idle /\ dest = Idle
CountIdle == count = Idle

InitExtract ==
    /\ video \in Videos
    /\ annotation \in AnnotationFiles
    /\ dataRun = DataStart
    /\ utilsRun = UtilsStart
    /\ DriverIdle /\ SplitIdle /\ CountIdle

\* one record line after a well-formed interval, over every box geometry
BoxValues == (0 - 1)..MaxBoxDim

InitBox ==
    /\ video = Video(TRUE, Frames, {}, FrameSide, FrameSide)
    /\ annotation \in {<<<<I(s)>>, <<I(t)>>, RecordLine(f, x, y, w, h)>> :
                          s \in {1, 2}, t \in {1, 2}, f \in {1, 2},
                          x \in BoxValues, y \in BoxValues,
                          w \in BoxValues, h \in BoxValues}
    /\ dataRun = DataStart
    /\ utilsRun = UtilsStart
    /\ DriverIdle /\ SplitIdle /\ CountIdle

DataOpenVideo ==
    /\ dataRun.pc = "start"
    /\ dataRun' = DataOpen(dataRun, video)
    /\ UNCHANGED <<video, annotation, utilsRun, rooms, driver, sources, splitRun, dest, count>>

DataNextLine ==
    /\ dataRun.pc = "loop"
    /\ dataRun' = DataLine(dataRun, video, annotation)
    /\ UNCHANGED <<video, annotation, utilsRun, rooms, driver, sources, splitRun, dest, count>>

UtilsOpenVideo ==
    /\ dataRun.pc \in Ended
    /\ utilsRun.pc = "start"
    /\ utilsRun' = UtilsOpen(utilsRun, video)
    /\ UNCHANGED <<video, annotation, dataRun, rooms, driver, sources, splitRun, dest, count>>

UtilsNextLine ==
    /\ utilsRun.pc = "loop"
    /\ utilsRun' = UtilsLine(utilsRun, video, annotation)
    /\ UNCHANGED <<video, annotation, dataRun, rooms, driver, sources, splitRun, dest, count>>

NextExtract == DataOpenVideo \/ DataNextLine \/ UtilsOpenVideo \/ UtilsNextLine

SpecExtract == InitExtract /\ [][NextExtract]_vars

SpecBox == InitBox /\ [][NextExtract]_vars

(***************************************************************************)
(* data.py: process_all_rooms.  A room tuple is modelled by the listing of *)
(* its video folder: a sequence of directory entries, each with whether    *)
(* its name ends in .avi, whether {video_name}.txt is a file of the        *)
(* annotation folder, and the video and annotation file themselves.        *)
(***************************************************************************)
MaxRooms == 2      \* room tuples in the list
MaxEntries == 2    \* directory entries in a video folder

DirEntry(avi, has_annotation, v, ann) ==
    [avi |-> avi, has_annotation |-> has_annotation, video |-> v, annotation |-> ann]

GoodVideo == Video(TRUE, 1..2, {1}, FrameSide, FrameSide)
ClosedVideo == Video(FALSE, {}, {}, FrameSide, FrameSide)

\* an annotation file with nothing wrong in it
CleanFile == <<<<I(1)>>, <<I(2)>>, RecordLine(2, 2, 2, 2, 2)>>

\* a short line, a non-integer field, a box of width 0, a box outside the frame,
\* a frame past the end of the video, a frame whose write fails
FaultyBodyFile ==
    <<<<I(1)>>, <<I(2)>>, <<I(1), I(0)>>, <<I(1), I(0), Txt, I(2), I(2), I(2)>>,
      RecordLine(2, 2, 2, 0, 2), RecordLine(2, 9, 9, 2, 2), RecordLine(3, 2, 2, 2, 2),
      RecordLine(1, 2, 2, 2, 2), RecordLine(2, 2, 2, 2, 2)>>

\* an annotation file whose first line is empty
FaultyHeadFile == <<<<Blank>>, <<I(2)>>, RecordLine(2, 2, 2, 2, 2)>>

DirEntries ==
    {DirEntry(FALSE, FALSE, ClosedVideo, <<>>),
     DirEntry(TRUE, FALSE, GoodVideo, <<>>),
     DirEntry(TRUE, TRUE, ClosedVideo, CleanFile)}
    \cup {DirEntry(TRUE, TRUE, GoodVideo, f) : f \in {CleanFile, FaultyBodyFile, FaultyHeadFile}}

\* the whole of crop_frames_using_annotations, from a position of the run
RECURSIVE DataRunFrom(_, _, _)
DataRunFrom(run, v, ann) ==
    IF run.pc = "start" THEN DataRunFrom(DataOpen(run, v), v, ann)
    ELSE IF run.pc = "loop" THEN DataRunFrom(DataLine(run, v, ann), v, ann)
    ELSE run

\* [f for f in os.listdir(video_path) if f.endswith('.avi')], as positions of
\* the listing
RECURSIVE AviFrom(_, _)
AviFrom(listing, i) ==
    IF i > Len(listing) THEN <<>>
    ELSE (IF listing[i].avi THEN <<i>> ELSE <<>>) \o AviFrom(listing, i + 1)

VideoFiles(listing) == AviFrom(listing, 1)

DriverStart ==
    [pc |-> "rooms", room |-> 0, video_files |-> <<>>, pos |-> 0, calls |-> <<>>,
     made |-> {}]

Call(room, entry, run) ==
    [room |-> room, entry |-> entry, ended |-> run.pc,
     fall_dir |-> run.fall_dir, no_fall_dir |-> run.no_fall_dir]

InitRooms ==
    /\ rooms \in SeqsUpTo(SeqsUpTo(DirEntries, MaxEntries), MaxRooms)
    /\ driver = DriverStart
    /\ ExtractIdle /\ SplitIdle /\ CountIdle

\* lines 85-89: the next tuple of the list and its video files, or the end of
\* the list
DriverNextRoom ==
    /\ driver.pc = "rooms"
    /\ IF driver.room = Len(rooms)
           THEN driver' = [driver EXCEPT !.pc = "done"]
           ELSE driver' = [driver EXCEPT !.pc = "videos", !.room = @ + 1, !.pos = 0,
                                         !.video_files = VideoFiles(rooms[driver.room + 1])]
    /\ UNCHANGED <<video, annotation, dataRun, utilsRun, rooms, sources, splitRun, dest, count>>

\* lines 91-110: one iteration of the loop over the video files, the call of
\* crop_frames_using_annotations included, or the end of that loop
DriverNextVideo ==
    /\ driver.pc = "videos"
    /\ IF driver.pos = Len(driver.video_files)
           THEN driver' = [driver EXCEPT !.pc = "rooms"]
           ELSE LET i == driver.video_files[driver.pos + 1]
                    e == rooms[driver.room][i]
                    run == DataRunFrom(DataStart, e.video, e.annotation)
                IN  IF ~e.has_annotation
                        THEN driver' = [driver EXCEPT !.pos = @ + 1]
                        ELSE driver' = [driver EXCEPT
                                 !.pos = @ + 1,
                                 !.made = @ \cup {<<driver.room, i>>},
                                 !.calls = Append(@, Call(driver.room, i, run)),
                                 !.pc = IF run.pc = "crashed" THEN "crashed" ELSE @]
    /\ UNCHANGED <<video, annotation, dataRun, utilsRun, rooms, sources, splitRun, dest, count>>

NextRooms == DriverNextRoom \/ DriverNextVideo

SpecRooms == InitRooms /\ [][NextRooms]_vars

(***************************************************************************)
(* u1.py: the dataset splitter.  A source file is its directory, the stem  *)
(* of its name and its extension; a label's source tree is a set of such   *)
(* files.  The destination tree is the set of its directories and the set  *)
(* of its files, each with the source file it was last copied from.        *)
(***************************************************************************)
MaxRuns == 2       \* runs of the script over the same sources and destination

File(dir, stem, ext) == [dir |-> dir, stem |-> stem, ext |-> ext]

\* os.path.basename(file)
BaseName(file) == <<file.stem, file.ext>>

\* the directories os.walk(directory) visits: the directory and those below it
Walked(directory) ==
    IF directory = "A" THEN {"A", "A/sub"} ELSE {directory}

\* file.lower(), on the extensions of the model
Lower(ext) == IF ext = "JPG" THEN "jpg" ELSE ext

\* file.lower().endswith(('.jpg', '.png'))
IsImage(file) == Lower(file.ext) \in {"jpg", "png"}

RECURSIVE SetToSeq(_)
SetToSeq(S) ==
    IF S = {} THEN <<>>
    ELSE LET x == CHOOSE y \in S : TRUE IN <<x>> \o SetToSeq(S \ {x})

\* lines 24-31: the image files under each directory of the list, in the order
\* of the list (the order within one walk is the file system's; the list is
\* shuffled before it is used)
RECURSIVE CollectImagesFromDirs(_, _)
CollectImagesFromDirs(directories, tree) ==
    IF directories = <<>> THEN <<>>
    ELSE SetToSeq({f \in tree : f.dir \in Walked(directories[1]) /\ IsImage(f)})
         \o CollectImagesFromDirs(Tail(directories), tree)

\* random.shuffle: the list in any order
Shuffles(files) ==
    LET n == Len(files)
        perms == {p \in [1..n -> 1..n] : \A i, j \in 1..n : p[i] = p[j] => i = j}
    IN  {[i \in 1..n |-> files[p[i]]] : p \in perms}

\* items[lo:hi] for 0 <= lo, hi (Python clips both to the length of the list)
Slice(items, lo, hi) == SubSeq(items, Min(lo, Len(items)) + 1, Min(hi, Len(items)))

\* lines 62-69, for one label: train_fall = int(train_ratio * total_fall),
\* val_fall = int(val_ratio * total_fall)
SplitSizes(total, ratios) ==
    [train |-> IntOfProduct(ratios.train_ratio, total),
     val |-> IntOfProduct(ratios.val_ratio, total)]

\* lines 72-79, for one label: the three lists cut from the shuffled list
SplitLists(files, sizes) ==
    [train |-> Slice(files, 0, sizes.train),
     val |-> Slice(files, sizes.train, sizes.train + sizes.val),
     test |-> Slice(files, sizes.train + sizes.val, Len(files))]

\* a slip: only the no_fall list is checked
SplitAbortsNoFallOnly(fall_files, no_fall_files) == Len(no_fall_files) = 0

\* lines 49-55: an empty list ends split_data before anything is copied
SplitAborts(fall_files, no_fall_files) == Len(no_fall_files) = 0 \/ Len(fall_files) = 0

DestFile(split, label, file) ==
    [split |-> split, label |-> label, name |-> BaseName(file), from |-> file]

\* shutil.copy(file, os.path.join(dest_base_dir, split, label, basename)) for each
\* file of a list in turn: a file of that name already there is replaced
RECURSIVE CopyAll(_, _, _, _)
CopyAll(files, split, label, present) ==
    IF files = <<>> THEN present
    ELSE LET new == DestFile(split, label, files[1])
             kept == {d \in present : ~(d.split = split /\ d.label = label /\ d.name = new.name)}
         IN  CopyAll(Tail(files), split, label, kept \cup {new})

\* lines 87-103: the six copy loops
CopySplits(fall, no_fall, present) ==
    LET a == CopyAll(fall.train, "train", "fall", present)
        b == CopyAll(fall.val, "val", "fall", a)
        c == CopyAll(fall.test, "test", "fall", b)
        d == CopyAll(no_fall.train, "train", "no_fall", c)
        e == CopyAll(no_fall.val, "val", "no_fall", d)
    IN  CopyAll(no_fall.test, "test", "no_fall", e)

\* lines 5-11: create_dataset_structure
DatasetStructure == {"train", "val", "test"} \X {"fall", "no_fall"}

DefaultTrainRatio == DoubleOf(7, 10)
DefaultValRatio == DoubleOf(15, 100)

\* the defaults of split_data, and a call with train_ratio=0.5, val_ratio=0.25
RatioPairs ==
    {[train_ratio |-> DefaultTrainRatio, val_ratio |-> DefaultValRatio],
     [train_ratio |-> DoubleOf(1, 2), val_ratio |-> DoubleOf(1, 4)]}

\* every source tree holds a file that is not an image
SourceTrees ==
    {{File("A", "notes", "txt")} \cup t :
        t \in SUBSET {File("A", "1", "jpg"), File("A/sub", "2", "JPG"), File("B", "1", "jpg")}}

\* one directory, two directories, a directory listed twice, a directory and
\* one nested in it
DirLists == {<<"A">>, <<"A", "B">>, <<"A", "A">>, <<"A", "A/sub">>}

NoLists == [train |-> <<>>, val |-> <<>>, test |-> <<>>]

InitSplit ==
    /\ sources \in [fall_tree : SourceTrees, no_fall_tree : SourceTrees,
                    source_fall_dirs : DirLists, source_no_fall_dirs : DirLists,
                    ratios : RatioPairs]
    /\ splitRun = [runs |-> 0, aborted |-> FALSE, fall_files |-> <<>>, no_fall_files |-> <<>>,
                   fall |-> NoLists, no_fall |-> NoLists]
    /\ dest = [dirs |-> {}, files |-> {}]
    /\ ExtractIdle /\ DriverIdle /\ CountIdle

\* lines 123-127: create_dataset_structure(dest_base_dir), then
\* split_data(source_fall_dirs, source_no_fall_dirs, dest_base_dir)
RunScript ==
    /\ splitRun.runs < MaxRuns
    /\ LET fall_files == CollectImagesFromDirs(sources.source_fall_dirs, sources.fall_tree)
           no_fall_files == CollectImagesFromDirs(sources.source_no_fall_dirs, sources.no_fall_tree)
       IN  IF SplitAborts(fall_files, no_fall_files)
           THEN /\ splitRun' = [splitRun EXCEPT !.runs = @ + 1, !.aborted = TRUE,
                                                !.fall_files = fall_files,
                                                !.no_fall_files = no_fall_files]
                /\ dest' = [dest EXCEPT !.dirs = DatasetStructure]
           ELSE \E fall_sizes \in {SplitSizes(Len(fall_files), sources.ratios)},
                   no_fall_sizes \in {SplitSizes(Len(no_fall_files), sources.ratios)},
                   shuffled_fall \in Shuffles(fall_files),
                   shuffled_no_fall \in Shuffles(no_fall_files) :
                   LET fall == SplitLists(shuffled_fall, fall_sizes)
                       no_fall == SplitLists(shuffled_no_fall, no_fall_sizes)
                   IN  /\ splitRun' = [runs |-> splitRun.runs + 1, aborted |-> FALSE,
                                       fall_files |-> fall_files,
                                       no_fall_files |-> no_fall_files,
                                       fall |-> fall, no_fall |-> no_fall]
                       /\ dest' = [dirs |-> DatasetStructure,
                                   files |-> CopySplits(fall, no_fall, dest.files)]
    /\ UNCHANGED <<video, annotation, dataRun, utilsRun, rooms, driver, sources, count>>

NextSplit == RunScript

SpecSplit == InitSplit /\ [][NextSplit]_vars

(***************************************************************************)
(* u1.py: the sizes of the three lists, as a function of the number of     *)
(* images of a label, for the default ratios.                              *)
(***************************************************************************)
MaxTotal == 100    \* images of one label

DefaultRatios == [train_ratio |-> DefaultTrainRatio, val_ratio |-> DefaultValRatio]

InitCount ==
    /\ count \in [pc : {"collected"}, label : {"fall", "no_fall"}, total : 0..MaxTotal,
                  train : {0}, val : {0}, test : {0}]
    /\ ExtractIdle /\ DriverIdle /\ SplitIdle

\* lines 62-79 for a list of count.total images
CutLists ==
    /\ count.pc = "collected"
    /\ LET files == [i \in 1..count.total |-> i]
           lists == SplitLists(files, SplitSizes(Len(files), DefaultRatios))
       IN  count' = [count EXCEPT !.pc = "cut", !.train = Len(lists.train),
                                  !.val = Len(lists.val), !.test = Len(lists.test)]
    /\ UNCHANGED <<video, annotation, dataRun, utilsRun, rooms, driver, sources, splitRun, dest>>

NextCount == CutLists

SpecCount == InitCount /\ [][NextCount]_vars

(***************************************************************************)
(* Properties of the extractors.                                           *)
(***************************************************************************)
Written(log) == {i \in 1..Len(log) : log[i].outcome = "written"}

\* the file's lines 1 and 2 are single integers
WellFormedInterval ==
    /\ Len(annotation) >= 2
    /\ \A i \in {1, 2} : Len(annotation[i]) = 1 /\ annotation[i][1].kind = "int"

FileFallStart == annotation[1][1].val
FileFallEnd == annotation[2][1].val

\* C1: in data.py's run, a line whose image is written has it written to the
\* fall directory, and not to the no_fall directory, exactly when
\* fall_start <= frame_number <= fall_end for the file's interval, whatever the
\* line's box is; otherwise to the no_fall directory and not to the fall one.
C1_LabelByInterval ==
    /\ \A i \in Written(dataRun.log) :
          LET e == dataRun.log[i]
              f == annotation[e.line_num][1].val
              inside == FileFallStart <= f /\ f <= FileFallEnd
          IN  /\ e.frame_num = f
              /\ inside => e.target = "fall" /\ FileName(f) \in dataRun.fall_dir
                             /\ FileName(f) \notin dataRun.no_fall_dir
              /\ ~inside => e.target = "no_fall" /\ FileName(f) \in dataRun.no_fall_dir
                              /\ FileName(f) \notin dataRun.fall_dir
    /\ dataRun.fall_dir \cup dataRun.no_fall_dir
          = {FileName(dataRun.log[i].frame_num) : i \in Written(dataRun.log)}

\* a frame inside the interval was written, from a box that had to be clamped
C1_Witness ==
    \E i \in Written(dataRun.log) :
        /\ dataRun.log[i].target = "fall"
        /\ annotation[3][3].val = 0 - 1
        /\ dataRun.pc = "done"

\* C2: a per-video run ends only by reaching the end of the annotation file,
\* or at once because the video cannot be opened: no content of the
\* annotation file ends it.
C2_OnlyUnopenableVideoEndsRun ==
    \A pc \in {dataRun.pc, utilsRun.pc} :
        /\ pc # "crashed"
        /\ pc = "aborted" => ~video.opens

\* the box of the claim, from the fields of line i of the file
C8_Box(i) ==
    LET x_center == annotation[i][3].val
        y_center == annotation[i][4].val
        width == annotation[i][5].val
        height == annotation[i][6].val
        half_w == IF width >= 0 THEN width \div 2 ELSE 0 - ((0 - width) \div 2)
        half_h == IF height >= 0 THEN height \div 2 ELSE 0 - ((0 - height) \div 2)
        x_lo == x_center - half_w
        x_hi == x_center + half_w
        y_lo == y_center - half_h
        y_hi == y_center + half_h
    IN  [x_start |-> IF x_lo < 0 THEN 0 ELSE x_lo,
         x_end |-> IF x_hi > video.width_frame THEN video.width_frame ELSE x_hi,
         y_start |-> IF y_lo < 0 THEN 0 ELSE y_lo,
         y_end |-> IF y_hi > video.height_frame THEN video.height_frame ELSE y_hi,
         width |-> width, height |-> height]

C8_MayWrite(i) ==
    LET b == C8_Box(i)
    IN  /\ b.width > 0 /\ b.height > 0
        /\ 0 <= b.x_start /\ b.x_start < b.x_end /\ b.x_end <= video.width_frame
        /\ 0 <= b.y_start /\ b.y_start < b.y_end /\ b.y_end <= video.height_frame

C8_LogOk(log) ==
    \A i \in Written(log) :
        /\ C8_MayWrite(log[i].line_num)
        /\ LET b == C8_Box(log[i].line_num)
           IN  log[i].box = <<b.x_start, b.x_end, b.y_start, b.y_end>>

\* C8: either extractor writes an image for a line only if width > 0, height > 0
\* and the clamped box has 0 <= x_start < x_end <= frame_width and
\* 0 <= y_start < y_end <= frame_height; the directories hold no other file.
C8_WritesOnlyValidBoxes ==
    /\ C8_LogOk(dataRun.log)
    /\ C8_LogOk(utilsRun.log)
    /\ dataRun.fall_dir \cup dataRun.no_fall_dir
          = {FileName(dataRun.log[i].frame_num) : i \in Written(dataRun.log)}
    /\ utilsRun.save_dir
          = {FileName(utilsRun.log[i].frame_num) : i \in Written(utilsRun.log)}

\* both runs wrote an image whose box was clamped at the frame's right edge
C8_Witness ==
    /\ Written(dataRun.log) # {} /\ Written(utilsRun.log) # {}
    /\ annotation[3][3].val + annotation[3][5].val \div 2 > video.width_frame
    /\ utilsRun.pc = "done"

\* the lines of the file that the claims call valid
C7_Valid(i) ==
    /\ i > 2
    /\ Len(annotation[i]) >= 6
    /\ \A k \in {1, 3, 4, 5, 6} : annotation[i][k].kind = "int"
    /\ C8_MayWrite(i)
    /\ annotation[i][1].val \in video.readable
    /\ annotation[i][1].val \notin video.unwritable

C7_ValidLines == {i \in 1..Len(annotation) : C7_Valid(i)}

C7_ValidFrames == {annotation[i][1].val : i \in C7_ValidLines}

\* C7 as stated: after a run on a file with a well-formed interval, the number
\* of image files equals the number of valid lines.
C7_OneFilePerValidLine ==
    WellFormedInterval =>
        /\ dataRun.pc = "done" =>
              Cardinality(dataRun.fall_dir) + Cardinality(dataRun.no_fall_dir)
                  = Cardinality(C7_ValidLines)
        /\ utilsRun.pc = "done" =>
              Cardinality(utilsRun.save_dir) = Cardinality(C7_ValidLines)

\* C7, amended: after a run on a file with a well-formed interval, the number of
\* image files equals the number of distinct frame numbers on valid lines (the
\* number of valid lines when no two of them carry the same frame number).
C7_OneFilePerValidFrame ==
    WellFormedInterval =>
        /\ dataRun.pc = "done" =>
              /\ Cardinality(dataRun.fall_dir) + Cardinality(dataRun.no_fall_dir)
                    = Cardinality(C7_ValidFrames)
              /\ dataRun.fall_dir \cup dataRun.no_fall_dir
                    = {FileName(f) : f \in C7_ValidFrames}
        /\ utilsRun.pc = "done" =>
              /\ Cardinality(utilsRun.save_dir) = Cardinality(C7_ValidFrames)
              /\ utilsRun.save_dir = {FileName(f) : f \in C7_ValidFrames}

\* both runs are over, on a file with two valid lines that carry the same
\* frame number
C7_Witness ==
    /\ WellFormedInterval
    /\ dataRun.pc = "done" /\ utilsRun.pc = "done"
    /\ Cardinality(C7_ValidLines) = 2
    /\ Cardinality(C7_ValidFrames) = 1
    /\ Cardinality(utilsRun.save_dir) = 1

\* C9: on a file whose first two lines are single integers, once both runs are
\* over the file names in utils.py's directory are those in data.py's fall and
\* no_fall directories together, and no name is in both of data.py's.
C9_VariantsAgree ==
    (WellFormedInterval /\ dataRun.pc \in Ended /\ utilsRun.pc \in Ended) =>
        /\ utilsRun.save_dir = dataRun.fall_dir \cup dataRun.no_fall_dir
        /\ dataRun.fall_dir \cap dataRun.no_fall_dir = {}

\* both runs are over and wrote to both of data.py's directories
C9_Witness ==
    /\ WellFormedInterval
    /\ dataRun.pc = "done" /\ utilsRun.pc = "done"
    /\ dataRun.fall_dir # {} /\ dataRun.no_fall_dir # {}
    /\ utilsRun.save_dir # {}

(***************************************************************************)
(* Properties of the batch driver.                                         *)
(***************************************************************************)
C3_Calls(r, i) ==
    Cardinality({k \in 1..Len(driver.calls) :
                    driver.calls[k].room = r /\ driver.calls[k].entry = i})

\* C3: when process_all_rooms has stopped, it has invoked the extractor exactly
\* once for each .avi file with an annotation file and never for one without,
\* whatever went wrong with earlier videos.
C3_DriverReachesEveryVideo ==
    driver.pc \in {"done", "crashed"} =>
        \A r \in 1..Len(rooms) : \A i \in 1..Len(rooms[r]) :
            rooms[r][i].avi =>
                C3_Calls(r, i) = IF rooms[r][i].has_annotation THEN 1 ELSE 0

(***************************************************************************)
(* Properties of the splitter.                                             *)
(***************************************************************************)
Range(q) == {q[i] : i \in 1..Len(q)}

\* C4: for each label, with total the number of its images, the three lists
\* have total elements together, train has floor(0.7 * total) of them and val
\* has floor(0.15 * total).
C4_SplitSizes ==
    count.pc = "cut" =>
        /\ count.train + count.val + count.test = count.total
        /\ count.train = (7 * count.total) \div 10
        /\ count.val = (15 * count.total) \div 100

C5_Partition(collected, lists) ==
    /\ Range(lists.train) \cap Range(lists.val) = {}
    /\ Range(lists.train) \cap Range(lists.test) = {}
    /\ Range(lists.val) \cap Range(lists.test) = {}
    /\ Range(lists.train) \cup Range(lists.val) \cup Range(lists.test) = Range(collected)

\* C5: whatever the lists of source directories, the train, val and test lists
\* of a label are pairwise disjoint and together hold every collected image of
\* that label.
C5_SplitIsPartition ==
    (splitRun.runs > 0 /\ ~splitRun.aborted) =>
        /\ C5_Partition(splitRun.fall_files, splitRun.fall)
        /\ C5_Partition(splitRun.no_fall_files, splitRun.no_fall)

\* no image file is under the directories of the list
C6_NoImages(directories, tree) ==
    \A f \in tree : \A i \in 1..Len(directories) :
        ~(f.ext \in {"jpg", "JPG", "png"}
            /\ (f.dir = directories[i] \/ (directories[i] = "A" /\ f.dir = "A/sub")))

C6_SomeLabelEmpty ==
    \/ C6_NoImages(sources.source_fall_dirs, sources.fall_tree)
    \/ C6_NoImages(sources.source_no_fall_dirs, sources.no_fall_tree)

\* C6: if a label has no image, split_data returns before it copies anything:
\* the destination tree holds no file, also none of the other label.
C6_EmptyLabelCopiesNothing ==
    (splitRun.runs > 0 /\ C6_SomeLabelEmpty) => (splitRun.aborted /\ dest.files = {})

\* the script has run with images of fall only, and the destination has its
\* directories and no file
C6_Witness ==
    /\ splitRun.runs > 0
    /\ ~C6_NoImages(sources.source_fall_dirs, sources.fall_tree)
    /\ C6_NoImages(sources.source_no_fall_dirs, sources.no_fall_tree)
    /\ dest.dirs = DatasetStructure
    /\ dest.files = {}

\* the images of a label are collected once each, under names of their own
C10_DistinctSources(collected) ==
    \A i, j \in 1..Len(collected) :
        i # j => (collected[i] # collected[j]
                    /\ <<collected[i].stem, collected[i].ext>>
                         # <<collected[j].stem, collected[j].ext>>)

C10_SplitsHolding(label, f) ==
    {d.split : d \in {x \in dest.files : x.label = label /\ x.from = f}}

\* C10: after any number of runs over the same sources and destination, with
\* the source names of a label pairwise distinct, every source image is in at
\* most one of the directories train, val and test of its label.
C10_NoImageInTwoSplits ==
    (C10_DistinctSources(splitRun.fall_files) /\ C10_DistinctSources(splitRun.no_fall_files)) =>
        /\ \A f \in Range(splitRun.fall_files) : Cardinality(C10_SplitsHolding("fall", f)) <= 1
        /\ \A f \in Range(splitRun.no_fall_files) :
               Cardinality(C10_SplitsHolding("no_fall", f)) <= 1

====
